---- MODULE Spec2Model ----
(***************************************************************************)
(* Rooftop / solar-panel counting: the overlap evaluator calculate_iou,    *)
(* the per-frame association loop and the global ledger (rooftop_status,   *)
(* all_rooftops, rooftops_with_solar) of rooftop_analysis.py.              *)
(*                                                                         *)
(* Boxes are 4-tuples <<x1, y1, x2, y2>>; Python's box[k] is box[k+1]      *)
(* here.  Coordinates are small integers, which float32/float64 hold       *)
(* exactly, so an IoU is kept as the exact fraction num/den and compared   *)
(* with the threshold by cross-multiplication.                             *)
(***************************************************************************)
EXTENDS Integers, Sequences, FiniteSets, TLC

\* ------------------------------------------------------------------ bounds
NumIds    == 2      \* tracker ids are 1..NumIds
MaxSolar  == 2      \* solar-panel detections per frame
MaxFrames == 2      \* frames of a video in SpecOrder

\* --------------------------------------------------------------- constants
\* `iou > 0.05` (line 93): 0.05 = ThresholdNum / ThresholdDen
ThresholdNum == 1
ThresholdDen == 20

Ids == 1..NumIds

\* Boxes the detectors hand over.  Together they reach every path of
\* calculate_iou: the early return, a zero ratio, a ratio equal to the
\* threshold, a ratio above it, and a zero denominator.
RoofBoxes  == { <<0, 0, 1, 1>>, <<3, 3, 3, 3>> }
SolarBoxes == { <<0, 0, 4, 5>>, <<0, 0, 1, 2>>, <<3, 3, 3, 3>> }
\* Boxes with inconsistent corner ordering (x1 > x2 or y1 > y2).
MalformedBoxes == { <<2, 0, 0, 2>>, <<0, 1, 1, 0>> }

VARIABLES
    rooftop_status,       \* defaultdict(bool): function, DOMAIN = its keys
    all_rooftops,         \* set of tracker ids
    rooftops_with_solar,  \* set of tracker ids
    pc,                   \* position of the callback
    rooftop_detections,   \* sequence of [tracker_id, xyxy] of the frame
    solar_detections,     \* sequence of xyxy boxes of the frame
    r_idx,                \* 1-based position of the per-rooftop loop
    has_solar,            \* local of the loop body
    rooftop_labels,       \* sequence of [tracker_id, solar] built for rendering
    totals,               \* [total_rooftops, total_with_solar, total_without_solar]
    iou_trace,            \* history: calculate_iou calls of the running frame
    solar_at_entry,       \* history: rooftops_with_solar when the frame arrived
    appeared,             \* history: ids present in any frame so far
    ever_solar,           \* history: ids overlapped by a solar box in some frame
    last_assoc,           \* history: id -> overlap verdict of the last frame holding it
    processed             \* history: frames a video has delivered (SpecOrder)

vars == << rooftop_status, all_rooftops, rooftops_with_solar, pc,
           rooftop_detections, solar_detections, r_idx, has_solar,
           rooftop_labels, totals, iou_trace, solar_at_entry,
           appeared, ever_solar, last_assoc, processed >>

\* ----------------------------------------------------------------- helpers
Max(a, b) == IF a >= b THEN a ELSE b
Min(a, b) == IF a <= b THEN a ELSE b

EmptyMap == [k \in {} |-> FALSE]

\* ----------------------------------------------------------- calculate_iou
\* Lines 33-52.  kind = "zero": `return 0.0` of line 41; "ratio": the
\* quotient of line 51; "zerodiv": line 51 evaluated with denominator 0.
calculate_iou(box1, box2) ==
    LET x_left   == Max(box1[1], box2[1])
        y_top    == Max(box1[2], box2[2])
        x_right  == Min(box1[3], box2[3])
        y_bottom == Min(box1[4], box2[4])
    IN  IF x_right < x_left \/ y_bottom < y_top
        THEN [kind |-> "zero", num |-> 0, den |-> 1]
        ELSE LET intersection_area == (x_right - x_left) * (y_bottom - y_top)
                 box1_area == (box1[3] - box1[1]) * (box1[4] - box1[2])
                 box2_area == (box2[3] - box2[1]) * (box2[4] - box2[2])
                 den == box1_area + box2_area - intersection_area
             IN  [kind |-> IF den = 0 THEN "zerodiv" ELSE "ratio",
                  num  |-> intersection_area,
                  den  |-> den]

\* What a zero denominator at line 51 can do: numpy scalar operands give
\* nan/inf with a warning, Python floats raise ZeroDivisionError.
ZeroDivOutcomes == {"nan", "raise"}

\* `iou > 0.05` (line 93).  For a zero denominator that did not raise the
\* quotient is nan (num = 0, never greater) or +/-inf (sign of num).
iou_gt_threshold(iou) ==
    CASE iou.kind = "zero"    -> FALSE
      [] iou.kind = "ratio"   ->
            IF iou.den > 0
            THEN iou.num * ThresholdDen > ThresholdNum * iou.den
            ELSE iou.num * ThresholdDen < ThresholdNum * iou.den
      [] iou.kind = "zerodiv" -> iou.num > 0

\* ------------------------------------------------------ association loop
\* One evaluator call as the history records it.
IouCall(box1, box2) == [box1 |-> box1, box2 |-> box2, out |-> calculate_iou(box1, box2)]

\* Lines 87-95: the scan over the solar detections from position s_idx on,
\* stopping at the first qualifying match (break) or at a raised division.
RECURSIVE ScanFrom(_, _, _, _)
ScanFrom(rooftop_box, sdets, s_idx, zd) ==
    IF s_idx > Len(sdets)
    THEN [has_solar |-> FALSE, raised |-> FALSE, calls |-> << >>]
    ELSE LET call == IouCall(rooftop_box, sdets[s_idx])
         IN  IF call.out.kind = "zerodiv" /\ zd = "raise"
             THEN [has_solar |-> FALSE, raised |-> TRUE, calls |-> <<call>>]
             ELSE IF iou_gt_threshold(call.out)
             THEN [has_solar |-> TRUE, raised |-> FALSE, calls |-> <<call>>]
             ELSE LET rest == ScanFrom(rooftop_box, sdets, s_idx + 1, zd)
                  IN  [rest EXCEPT !.calls = <<call>> \o rest.calls]

\* associate with the scan leaving the loop after the first solar detection
\* whatever its overlap (a `break` outside the `if`).
associate_first_only(rooftop_box, sdets, zd) ==
    IF Len(sdets) > 0
    THEN ScanFrom(rooftop_box, SubSeq(sdets, 1, 1), 1, zd)
    ELSE [has_solar |-> FALSE, raised |-> FALSE, calls |-> << >>]

\* associate with has_solar starting out True.
associate_init_true(rooftop_box, sdets, zd) ==
    IF Len(sdets) > 0
    THEN LET scan == ScanFrom(rooftop_box, sdets, 1, zd)
         IN  [scan EXCEPT !.has_solar = ~scan.raised]
    ELSE [has_solar |-> TRUE, raised |-> FALSE, calls |-> << >>]

\* Lines 82-95: has_solar = False, then the scan when there is any solar
\* detection.
associate(rooftop_box, sdets, zd) ==
    IF Len(sdets) > 0
    THEN ScanFrom(rooftop_box, sdets, 1, zd)
    ELSE [has_solar |-> FALSE, raised |-> FALSE, calls |-> << >>]

\* ------------------------------------------------------------------ ledger
\* all_rooftops.add with the add left out.
AddRooftopId_skip(all, id) == all

\* Line 80: all_rooftops.add(rooftop_id)
AddRooftopId(all, id) == all \cup {id}

\* rooftop_status kept True once it was True.
WriteStatus_sticky(status, id, hs) ==
    [k \in (DOMAIN status) \cup {id} |->
        IF k = id THEN (hs \/ (id \in DOMAIN status /\ status[id])) ELSE status[k]]

\* Line 98: rooftop_status[rooftop_id] = has_solar
WriteStatus(status, id, hs) ==
    [k \in (DOMAIN status) \cup {id} |-> IF k = id THEN hs ELSE status[k]]

\* rooftops_with_solar following the current status: the id is dropped
\* again when has_solar is False.
AddIfSolar_discard(solar, id, hs) == IF hs THEN solar \cup {id} ELSE solar \ {id}

\* Lines 101-102: if has_solar: rooftops_with_solar.add(rooftop_id)
AddIfSolar(solar, id, hs) == IF hs THEN solar \cup {id} ELSE solar

\* ------------------------------------------------------------------ labels
\* The key the label reads, taken as the loop position instead of the id.
LabelKey_index(dets, i) == i - 1

\* Line 106: int(tracker_id) of the i-th rooftop detection
LabelKey(dets, i) == dets[i].tracker_id

\* defaultdict(bool).__getitem__ (line 21, read at line 106): a missing key
\* is inserted with bool() = False and that value is returned.
GetItemValue(status, key) == IF key \in DOMAIN status THEN status[key] ELSE FALSE
GetItemStore(status, key) ==
    IF key \in DOMAIN status THEN status
    ELSE [k \in (DOMAIN status) \cup {key} |-> IF k = key THEN FALSE ELSE status[k]]

\* Lines 105-108: the labels, and rooftop_status after the reads.
RECURSIVE LabelsFrom(_, _, _)
LabelsFrom(status, dets, i) ==
    IF i > Len(dets)
    THEN [labels |-> << >>, status |-> status]
    ELSE LET key  == LabelKey(dets, i)
             rest == LabelsFrom(GetItemStore(status, key), dets, i + 1)
         IN  [labels |-> << [tracker_id |-> dets[i].tracker_id,
                             solar |-> GetItemValue(status, key)] >> \o rest.labels,
              status |-> rest.status]

\* ------------------------------------------------------------------ totals
\* The subtraction of line 137 with its operands swapped.
ComputeTotals_swapped(all, solar) ==
    [total_rooftops      |-> Cardinality(all),
     total_with_solar    |-> Cardinality(solar),
     total_without_solar |-> Cardinality(solar) - Cardinality(all)]

\* Lines 135-137
ComputeTotals(all, solar) ==
    [total_rooftops      |-> Cardinality(all),
     total_with_solar    |-> Cardinality(solar),
     total_without_solar |-> Cardinality(all) - Cardinality(solar)]

\* ------------------------------------------------------------------ frames
\* Rooftop detections of one frame.  The tracker gives each detection of a
\* frame its own id, and the detector's non-maximum suppression leaves no two
\* detections of a class with the same box.
RoofDetSeqs(RB) ==
    LET Det == [tracker_id : Ids, xyxy : RB]
    IN  { s \in UNION { [1..n -> Det] : n \in 0..NumIds } :
            \A i, j \in 1..Len(s) :
                (s[i].tracker_id = s[j].tracker_id \/ s[i].xyxy = s[j].xyxy) => i = j }

SolarDetSeqs(SB) ==
    { s \in UNION { [1..n -> SB] : n \in 0..MaxSolar } :
        \A i, j \in 1..Len(s) : s[i] = s[j] => i = j }

FrameIds(rdets) == { rdets[i].tracker_id : i \in 1..Len(rdets) }

\* Whether some solar box of the frame overlaps the rooftop box by more than
\* the threshold: the verdict the history keeps, stated over the whole frame.
AnyOverlap(rooftop_box, sdets) ==
    \E i \in 1..Len(sdets) : iou_gt_threshold(calculate_iou(rooftop_box, sdets[i]))

Verdict(rdets, sdets, id) ==
    LET i == CHOOSE k \in 1..Len(rdets) : rdets[k].tracker_id = id
    IN  AnyOverlap(rdets[i].xyxy, sdets)

\* The history variables once a frame has arrived.
HistoryStep(rdets, sdets) ==
    /\ appeared'   = appeared \cup FrameIds(rdets)
    /\ ever_solar' = ever_solar \cup { id \in FrameIds(rdets) : Verdict(rdets, sdets, id) }
    /\ last_assoc' = [id \in (DOMAIN last_assoc) \cup FrameIds(rdets) |->
                        IF id \in FrameIds(rdets) THEN Verdict(rdets, sdets, id)
                        ELSE last_assoc[id]]
    /\ solar_at_entry' = rooftops_with_solar

\* -------------------------------------------------------------------- Init
Init ==
    /\ rooftop_status = EmptyMap
    /\ all_rooftops = {}
    /\ rooftops_with_solar = {}
    /\ pc = "idle"
    /\ rooftop_detections = << >>
    /\ solar_detections = << >>
    /\ r_idx = 1
    /\ has_solar = FALSE
    /\ rooftop_labels = << >>
    /\ totals = [total_rooftops |-> 0, total_with_solar |-> 0, total_without_solar |-> 0]
    /\ iou_trace = << >>
    /\ solar_at_entry = {}
    /\ appeared = {}
    /\ ever_solar = {}
    /\ last_assoc = EmptyMap
    /\ processed = << >>

\* ----------------------------------------------------- callback, by steps
\* Lines 63-75: process_video hands the next frame to callback; detectors
\* and trackers give the frame's two detection lists.
detect_and_track(RB, SB) ==
    /\ pc = "idle"
    /\ \E rdets \in RoofDetSeqs(RB), sdets \in SolarDetSeqs(SB) :
          /\ rooftop_detections' = rdets
          /\ solar_detections' = sdets
          /\ HistoryStep(rdets, sdets)
    /\ r_idx' = 1
    /\ iou_trace' = << >>
    /\ pc' = "loop"
    /\ UNCHANGED << rooftop_status, all_rooftops, rooftops_with_solar, has_solar,
                    rooftop_labels, totals, processed >>

\* Lines 78-80: next rooftop of the loop, all_rooftops.add(rooftop_id)
loop_add_rooftop ==
    /\ pc = "loop"
    /\ r_idx <= Len(rooftop_detections)
    /\ all_rooftops' = AddRooftopId(all_rooftops, rooftop_detections[r_idx].tracker_id)
    /\ pc' = "assoc"
    /\ UNCHANGED << rooftop_status, rooftops_with_solar, rooftop_detections,
                    solar_detections, r_idx, has_solar, rooftop_labels, totals,
                    iou_trace, solar_at_entry, appeared, ever_solar, last_assoc,
                    processed >>

\* Lines 82-95: has_solar of the current rooftop; a raised division leaves
\* callback (and process_video) with the exception.
loop_associate ==
    /\ pc = "assoc"
    /\ \E zd \in ZeroDivOutcomes :
          LET scan == associate(rooftop_detections[r_idx].xyxy, solar_detections, zd)
          IN  /\ iou_trace' = iou_trace \o scan.calls
              /\ has_solar' = scan.has_solar
              /\ pc' = IF scan.raised THEN "raised" ELSE "status"
    /\ UNCHANGED << rooftop_status, all_rooftops, rooftops_with_solar,
                    rooftop_detections, solar_detections, r_idx, rooftop_labels,
                    totals, solar_at_entry, appeared, ever_solar, last_assoc,
                    processed >>

\* Line 98: rooftop_status[rooftop_id] = has_solar
loop_write_status ==
    /\ pc = "status"
    /\ rooftop_status' = WriteStatus(rooftop_status,
                                     rooftop_detections[r_idx].tracker_id, has_solar)
    /\ pc' = "solar"
    /\ UNCHANGED << all_rooftops, rooftops_with_solar, rooftop_detections,
                    solar_detections, r_idx, has_solar, rooftop_labels, totals,
                    iou_trace, solar_at_entry, appeared, ever_solar, last_assoc,
                    processed >>

\* Lines 101-102, then back to the loop head
loop_add_solar ==
    /\ pc = "solar"
    /\ rooftops_with_solar' = AddIfSolar(rooftops_with_solar,
                                         rooftop_detections[r_idx].tracker_id, has_solar)
    /\ r_idx' = r_idx + 1
    /\ pc' = "loop"
    /\ UNCHANGED << rooftop_status, all_rooftops, rooftop_detections,
                    solar_detections, has_solar, rooftop_labels, totals, iou_trace,
                    solar_at_entry, appeared, ever_solar, last_assoc, processed >>

\* Lines 105-108: the loop is over; the labels read rooftop_status
build_labels ==
    /\ pc = "loop"
    /\ r_idx > Len(rooftop_detections)
    /\ LET built == LabelsFrom(rooftop_status, rooftop_detections, 1)
       IN  /\ rooftop_labels' = built.labels
           /\ rooftop_status' = built.status
    /\ pc' = "stats"
    /\ UNCHANGED << all_rooftops, rooftops_with_solar, rooftop_detections,
                    solar_detections, r_idx, has_solar, totals, iou_trace,
                    solar_at_entry, appeared, ever_solar, last_assoc, processed >>

\* Lines 135-137 and 210: the totals drawn on the frame; callback returns
\* and its locals are gone.
show_totals ==
    /\ pc = "stats"
    /\ totals' = ComputeTotals(all_rooftops, rooftops_with_solar)
    /\ pc' = "idle"
    /\ rooftop_detections' = << >>
    /\ solar_detections' = << >>
    /\ r_idx' = 1
    /\ has_solar' = FALSE
    /\ rooftop_labels' = << >>
    /\ iou_trace' = << >>
    /\ UNCHANGED << rooftop_status, all_rooftops, rooftops_with_solar,
                    solar_at_entry, appeared, ever_solar, last_assoc, processed >>

Next ==
    \/ detect_and_track(RoofBoxes, SolarBoxes)
    \/ loop_add_rooftop
    \/ loop_associate
    \/ loop_write_status
    \/ loop_add_solar
    \/ build_labels
    \/ show_totals

Spec == Init /\ [][Next]_vars

\* The same callback fed boxes with inconsistent corner ordering as well.
NextMalformed ==
    \/ detect_and_track(RoofBoxes \cup MalformedBoxes, SolarBoxes \cup MalformedBoxes)
    \/ loop_add_rooftop
    \/ loop_associate
    \/ loop_write_status
    \/ loop_add_solar
    \/ build_labels
    \/ show_totals

SpecMalformed == Init /\ [][NextMalformed]_vars

\* ------------------------------------------------ callback, as one step
\* Lines 78-102 from rooftop i on, over a ledger L = [status, all, solar]:
\* the loop of the step actions above, run to its end or to a raised division.
RECURSIVE RunLoop(_, _, _, _, _)
RunLoop(L, rdets, sdets, i, zd) ==
    IF i > Len(rdets)
    THEN [status |-> L.status, all |-> L.all, solar |-> L.solar,
          raised |-> FALSE, r_idx |-> i, calls |-> << >>]
    ELSE LET id   == rdets[i].tracker_id
             all1 == AddRooftopId(L.all, id)
             scan == associate(rdets[i].xyxy, sdets, zd)
         IN  IF scan.raised
             THEN [status |-> L.status, all |-> all1, solar |-> L.solar,
                   raised |-> TRUE, r_idx |-> i, calls |-> scan.calls]
             ELSE LET rest == RunLoop([status |-> WriteStatus(L.status, id, scan.has_solar),
                                       all    |-> all1,
                                       solar  |-> AddIfSolar(L.solar, id, scan.has_solar)],
                                      rdets, sdets, i + 1, zd)
                  IN  [rest EXCEPT !.calls = scan.calls \o rest.calls]

\* Lines 78-108 on a ledger: the loop, then the label reads.
RunFrame(L, frame, zd) ==
    LET out == RunLoop(L, frame.rooftops, frame.solars, 1, zd)
    IN  IF out.raised THEN out
        ELSE [out EXCEPT !.status = LabelsFrom(out.status, frame.rooftops, 1).status]

\* Boxes of the videos whose frame order is permuted.
OrderRoofBoxes  == { <<0, 0, 1, 1>>, <<3, 3, 4, 4>> }
OrderSolarBoxes == { <<0, 0, 1, 2>> }

\* Lines 58-210 as one step: callback on the next frame of the video
\* (process_video, lines 214-218, calls it once per frame, in order).
callback(RB, SB) ==
    /\ pc = "idle"
    /\ Len(processed) < MaxFrames
    /\ \E rdets \in RoofDetSeqs(RB), sdets \in SolarDetSeqs(SB), zd \in ZeroDivOutcomes :
          LET frame == [rooftops |-> rdets, solars |-> sdets]
              out   == RunFrame([status |-> rooftop_status, all |-> all_rooftops,
                                 solar |-> rooftops_with_solar], frame, zd)
          IN  /\ HistoryStep(rdets, sdets)
              /\ rooftop_status' = out.status
              /\ all_rooftops' = out.all
              /\ rooftops_with_solar' = out.solar
              /\ processed' = Append(processed, frame)
              /\ IF out.raised
                 THEN /\ pc' = "raised"
                      /\ rooftop_detections' = rdets
                      /\ solar_detections' = sdets
                      /\ r_idx' = out.r_idx
                      /\ iou_trace' = out.calls
                      /\ UNCHANGED totals
                 ELSE /\ pc' = "idle"
                      /\ totals' = ComputeTotals(out.all, out.solar)
                      /\ UNCHANGED << rooftop_detections, solar_detections, r_idx,
                                      iou_trace >>
    /\ UNCHANGED << has_solar, rooftop_labels >>

NextOrder == callback(OrderRoofBoxes, OrderSolarBoxes)

SpecOrder == Init /\ [][NextOrder]_vars

\* The ledger after callback has run on the frames of a sequence, in order.
RECURSIVE ReplayFrom(_, _, _, _)
ReplayFrom(L, frames, k, zd) ==
    IF k > Len(frames) \/ L.raised THEN L
    ELSE ReplayFrom(RunFrame(L, frames[k], zd), frames, k + 1, zd)

Replay(frames, zd) ==
    ReplayFrom([status |-> EmptyMap, all |-> {}, solar |-> {}, raised |-> FALSE,
                r_idx |-> 1, calls |-> << >>], frames, 1, zd)

Perms(n) == { p \in [1..n -> 1..n] : \A i, j \in 1..n : p[i] = p[j] => i = j }
Permuted(seq, p) == [i \in 1..Len(seq) |-> seq[p[i]]]

\* The overlap verdict for id in the last frame of the sequence that holds it.
LastVerdict(frames, id) ==
    LET holding == { k \in 1..Len(frames) : id \in FrameIds(frames[k].rooftops) }
        last    == CHOOSE k \in holding : \A m \in holding : m <= k
    IN  Verdict(frames[last].rooftops, frames[last].solars, id)

\* ================================================================== claims
CurId  == rooftop_detections[r_idx].tracker_id
CurBox == rooftop_detections[r_idx].xyxy
FrameRunning == pc \in {"loop", "assoc", "status", "solar", "stats"}

\* C1: at every point of every run, inside the per-rooftop loop as well,
\* rooftops_with_solar is a subset of all_rooftops.
C1_SolarSubsetOfAll == rooftops_with_solar \subseteq all_rooftops

\* C1 witness: inside the loop, the second rooftop of a frame is about to be
\* added to a non-empty rooftops_with_solar.
C1_InsideLoopWitness ==
    /\ pc = "solar" /\ r_idx = 2 /\ has_solar
    /\ rooftops_with_solar # {} /\ CurId \notin rooftops_with_solar

\* C2: no step removes an identity from all_rooftops or rooftops_with_solar,
\* so both sets only grow.
C2_SetsOnlyGrow ==
    [][ /\ all_rooftops \subseteq all_rooftops'
        /\ rooftops_with_solar \subseteq rooftops_with_solar' ]_vars

\* C2 witness: lines 101-102 are reached with has_solar False for an identity
\* that is already in rooftops_with_solar.
C2_NoSolarForKnownSolarWitness ==
    pc = "solar" /\ ~has_solar /\ CurId \in rooftops_with_solar

\* C3: an identity seen with solar in one frame and without in its latest
\* frame has status False after that frame, is still in rooftops_with_solar
\* and is counted in total_with_solar.
C3_StatusOverwrittenSetSticky ==
    pc = "idle" =>
        \A id \in ever_solar :
            ~last_assoc[id] =>
                /\ id \in DOMAIN rooftop_status
                /\ rooftop_status[id] = FALSE
                /\ id \in rooftops_with_solar
                /\ totals.total_with_solar = Cardinality(rooftops_with_solar)

\* C3 witness: a frame has returned whose verdict for an identity was False
\* after an earlier frame's was True.
C3_SolarThenNoSolarWitness ==
    pc = "idle" /\ \E id \in ever_solar : ~last_assoc[id]

\* C4: after any sequence of frames total_rooftops is the number of distinct
\* identities that appeared, total_with_solar the number of identities some
\* frame's solar boxes overlapped, and total_without_solar their difference,
\* never negative.
C4_TotalsCountDistinctIds ==
    pc = "idle" =>
        /\ totals.total_rooftops = Cardinality(appeared)
        /\ totals.total_with_solar = Cardinality(ever_solar)
        /\ totals.total_without_solar = totals.total_rooftops - totals.total_with_solar
        /\ totals.total_without_solar >= 0

\* C4 witness: two identities seen, one of them once with solar and now
\* without: totals 2, 1, 1.
C4_TwoOneOneWitness ==
    /\ pc = "idle"
    /\ totals = [total_rooftops |-> 2, total_with_solar |-> 1, total_without_solar |-> 1]
    /\ \E id \in ever_solar : ~last_assoc[id]

WellFormed(box) == box[1] <= box[3] /\ box[2] <= box[4]

Area(box) == (box[3] - box[1]) * (box[4] - box[2])

\* Area of the geometric intersection of two well-formed boxes.
GeometricIntersection(b1, b2) ==
    Max(0, Min(b1[3], b2[3]) - Max(b1[1], b2[1]))
      * Max(0, Min(b1[4], b2[4]) - Max(b1[2], b2[2]))

\* Intersection over union strictly above 0.05, for well-formed boxes.
OverlapAboveThreshold(b1, b2) ==
    LET inter == GeometricIntersection(b1, b2)
    IN  inter * ThresholdDen > ThresholdNum * (Area(b1) + Area(b2) - inter)

\* C5: has_solar as the loop leaves it is True exactly when some solar box
\* of the frame has intersection over union with the rooftop box strictly
\* above 0.05, and the loop gives the same result on every ordering of the
\* solar detections.
C5_HasSolarIffAnyOverlap ==
    pc = "status" =>
        /\ has_solar = (\E i \in 1..Len(solar_detections) :
                            OverlapAboveThreshold(CurBox, solar_detections[i]))
        /\ \A zd \in ZeroDivOutcomes :
              LET given == associate(CurBox, solar_detections, zd)
              IN  \A p \in Perms(Len(solar_detections)) :
                      LET scan == associate(CurBox, Permuted(solar_detections, p), zd)
                      IN  /\ scan.raised = given.raised
                          /\ ~scan.raised => scan.has_solar = has_solar

\* C5 witness: the qualifying solar box is the second of two, so another
\* ordering stops the loop earlier.
C5_MatchIsSecondWitness ==
    /\ pc = "status" /\ has_solar /\ Len(solar_detections) = 2
    /\ ~iou_gt_threshold(calculate_iou(CurBox, solar_detections[1]))

\* C6: in a frame with no solar detection calculate_iou is never called,
\* has_solar is False for every rooftop, nothing is added to
\* rooftops_with_solar and every identity of the frame gets status False.
C6_NoSolarDetections ==
    (FrameRunning /\ solar_detections = << >>) =>
        /\ iou_trace = << >>
        /\ rooftops_with_solar = solar_at_entry
        /\ pc \in {"status", "solar"} => ~has_solar
        /\ \A i \in 1..Len(rooftop_detections) :
              (i < r_idx \/ (i = r_idx /\ pc = "solar")) =>
                  rooftop_status[rooftop_detections[i].tracker_id] = FALSE

\* C6 witness: such a frame has gone through the loop and held an identity
\* that an earlier frame put into rooftops_with_solar.
C6_NoSolarFrameWitness ==
    /\ pc = "stats" /\ solar_detections = << >>
    /\ \E i \in 1..Len(rooftop_detections) :
          rooftop_detections[i].tracker_id \in rooftops_with_solar

\* C7: for well-formed boxes whose intersection has zero area calculate_iou
\* returns exactly 0 and never divides by a zero denominator.
C7_ZeroIntersectionGivesZero ==
    \A k \in 1..Len(iou_trace) :
        LET c == iou_trace[k]
        IN  (WellFormed(c.box1) /\ WellFormed(c.box2)
               /\ GeometricIntersection(c.box1, c.box2) = 0) =>
                /\ c.out.kind # "zerodiv"
                /\ c.out.num = 0

\* C8: given a box with inconsistent corner ordering the evaluator rejects
\* it instead of returning a value, and no has_solar that reaches the ledger
\* comes from a call on such a box.
C8_MalformedBoxRejected ==
    /\ \A k \in 1..Len(iou_trace) :
          (~WellFormed(iou_trace[k].box1) \/ ~WellFormed(iou_trace[k].box2)) =>
              iou_trace[k].out.kind = "rejected"
    /\ (pc \in {"status", "solar"} /\ iou_trace # << >>) =>
          LET c == iou_trace[Len(iou_trace)]
          IN  WellFormed(c.box1) /\ WellFormed(c.box2)

\* C9: callback run over any reordering of the frames processed so far ends
\* with the same all_rooftops and rooftops_with_solar (so the same totals),
\* and with each identity's status equal to the overlap verdict of the last
\* frame of that ordering that holds the identity.
C9_SetsCommuteStatusLastWins ==
    pc = "idle" =>
        \A p \in Perms(Len(processed)) :
            LET frames == Permuted(processed, p)
                R      == Replay(frames, "raise")
            IN  /\ ~R.raised
                /\ R.all = all_rooftops
                /\ R.solar = rooftops_with_solar
                /\ ComputeTotals(R.all, R.solar) = totals
                /\ DOMAIN R.status = DOMAIN rooftop_status
                /\ \A id \in DOMAIN R.status : R.status[id] = LastVerdict(frames, id)
                /\ (\A i \in 1..Len(processed) : p[i] = i) => R.status = rooftop_status

\* C9 witness: some reordering of the processed frames leaves a different
\* rooftop_status.
C9_StatusDependsOnOrderWitness ==
    /\ pc = "idle"
    /\ \E p \in Perms(Len(processed)) :
          Replay(Permuted(processed, p), "raise").status # rooftop_status

\* C10: once the labels are built, and after callback has returned, the keys
\* of rooftop_status are exactly all_rooftops and every identity whose status
\* is True is in rooftops_with_solar.
C10_StatusKeysAreAllRooftops ==
    pc \in {"stats", "idle"} =>
        /\ DOMAIN rooftop_status = all_rooftops
        /\ \A id \in DOMAIN rooftop_status :
              rooftop_status[id] => id \in rooftops_with_solar

\* C10 witness: labels were built for two rooftops, one read as solar and
\* one as not.
C10_LabelsBuiltWitness ==
    /\ pc = "stats" /\ Len(rooftop_labels) = 2
    /\ rooftop_labels[1].solar /\ ~rooftop_labels[2].solar

====
